---- MODULE Spec2Model ----
(***************************************************************************)
(* font-kit: the Source trait's default matching algorithms                *)
(* (src/src/source.rs), the Core Text adapter and its piecewise-linear     *)
(* scale mapper (src/src/sources/core_text.rs).                            *)
(*                                                                         *)
(* Every operation of the trait is a single synchronous call over an       *)
(* immutable catalog, so a behaviour is: Init fixes the catalog the        *)
(* platform exposes, one action performs one whole call and records its    *)
(* arguments, its outcome and the collaborator calls it made.              *)
(*                                                                         *)
(* Rust Result values are records [tag, val] with tag "Ok" or "Err"; a     *)
(* panic (unwrap on Err, slice index out of bounds) is the outcome Panic.  *)
(* Slice positions keep Rust's 0-based numbering; a TLA+ sequence s holds  *)
(* slice element i at s[i + 1].                                            *)
(***************************************************************************)
EXTENDS Integers, Sequences, FiniteSets, TLC

VARIABLES
    source,     \* which implementor of Source is queried: "CoreText" or "Other"
    installed,  \* family name -> the faces the platform registry lists for it
    failure,    \* family name -> "none", or the error an "Other" adapter answers
    call,       \* the operation performed and its arguments
    result,     \* its outcome
    resolved,   \* the names handed to select_family_by_name, in call order
    pc          \* "idle" before the call, "done" after it

vars == <<source, installed, failure, call, result, resolved, pc>>

(***************************************************************************)
(* Bounds of the model.                                                    *)
(***************************************************************************)
MaxFonts == 2
MaxPrefs == 2
MaxListed == 2

FamilyNames == {"Arial", "Times New Roman"}
\* A face the registry lists: one whose file cannot be loaded, or a loadable
\* face, identified by its PostScript name (which also stands for its style).
Faces == {"bad", "Regular", "Bold"}
PostscriptNames == {"Regular", "Bold", "Missing"}

SeqsUpTo(S, n) == UNION {[1..k -> S] : k \in 0..n}

Ok(v) == [tag |-> "Ok", val |-> v]
Err(e) == [tag |-> "Err", val |-> e]
Panic == [tag |-> "Panic", val |-> "panic"]

\* slice[index] with Rust's bounds check
Index(slice, index) ==
    IF index >= 0 /\ index < Len(slice) THEN Ok(slice[index + 1]) ELSE Panic

(***************************************************************************)
(* source.rs: the generic family defaults.                                 *)
(***************************************************************************)
DEFAULT_FONT_FAMILY_SERIF == "Times New Roman"
DEFAULT_FONT_FAMILY_SANS_SERIF == "Arial"
DEFAULT_FONT_FAMILY_MONOSPACE == "Courier New"
DEFAULT_FONT_FAMILY_CURSIVE == "Comic Sans MS"
DEFAULT_FONT_FAMILY_FANTASY == "Papyrus"

Title(title) == [kind |-> "Title", title |-> title]
Generic(kind) == [kind |-> kind, title |-> ""]

\* The preferences the model draws: those whose family the catalog knows.
FamilyNameValues == {Title("Arial"), Generic("SansSerif"), Generic("Serif")}

(***************************************************************************)
(* The catalog adapter.                                                    *)
(***************************************************************************)
\* Handle::Path { path, font_index: 0 }: the path of the k-th face of a family
create_handle_from_descriptor(name, k) == [path |-> <<name, k>>, font_index |-> 0]

create_handles_from_core_text_collection(name) ==
    [k \in 1..Len(installed[name]) |-> create_handle_from_descriptor(name, k)]

FamilyHandle_from_font_handles(handles) == [fonts |-> handles]

\* CoreTextSource::select_family_by_name: always Ok, whatever the collection holds
CoreTextSource_select_family_by_name(family_name) ==
    Ok(FamilyHandle_from_font_handles(create_handles_from_core_text_collection(family_name)))

\* resolve_family of any other adapter: FamilyResult | NotFound | IoFailure
Other_select_family_by_name(family_name) ==
    IF failure[family_name] # "none"
    THEN Err(failure[family_name])
    ELSE Ok(FamilyHandle_from_font_handles(
                create_handles_from_core_text_collection(family_name)))

select_family_by_name(family_name) ==
    IF source = "CoreText"
    THEN CoreTextSource_select_family_by_name(family_name)
    ELSE Other_select_family_by_name(family_name)

\* Font::from_handle: the loaded font, or a loading error
Font_from_handle(handle) ==
    LET face == installed[handle.path[1]][handle.path[2]]
    IN  IF face = "bad"
        THEN Err("IoFailure")
        ELSE Ok([family_name |-> handle.path[1],
                 postscript_name |-> face,
                 properties |-> face])

\* Family::from_handle: every font of the family loaded, or the first error
Family_from_handle(family_handle) ==
    LET loaded == [k \in 1..Len(family_handle.fonts) |->
                       Font_from_handle(family_handle.fonts[k])]
    IN  IF \E k \in 1..Len(loaded) : loaded[k].tag = "Err"
        THEN Err("IoFailure")
        ELSE Ok([fonts |-> [k \in 1..Len(loaded) |-> loaded[k].val]])

\* matching::find_best_match: an index into candidates, or NotFound.  The
\* desired properties are represented by the answer the policy gives for each
\* family's candidates: an index, or -1 for no match.
find_best_match(candidates, properties) ==
    IF candidates = <<>>
    THEN Err("NotFound")
    ELSE LET index == properties[candidates[1].family_name]
         IN  IF index < 0 THEN Err("NotFound") ELSE Ok(index)

(***************************************************************************)
(* source.rs: the Source trait's provided methods.                         *)
(***************************************************************************)
GenericName(family_name) ==
    CASE family_name.kind = "Title" -> family_name.title
      [] family_name.kind = "Serif" -> DEFAULT_FONT_FAMILY_SERIF
      [] family_name.kind = "SansSerif" -> DEFAULT_FONT_FAMILY_SANS_SERIF
      [] family_name.kind = "Monospace" -> DEFAULT_FONT_FAMILY_MONOSPACE
      [] family_name.kind = "Cursive" -> DEFAULT_FONT_FAMILY_CURSIVE
      [] family_name.kind = "Fantasy" -> DEFAULT_FONT_FAMILY_FANTASY

select_family_by_generic_name(family_name) ==
    select_family_by_name(GenericName(family_name))

RECURSIVE describe_from(_, _, _)
\* the loop of select_descriptions_in_family from font k on, fields so far
describe_from(family, k, fields) ==
    IF k > Len(family.fonts)
    THEN Ok(fields)
    ELSE LET font == Font_from_handle(family.fonts[k])
         IN  IF font.tag = "Err"
             THEN Panic     \* .unwrap()
             ELSE describe_from(family, k + 1,
                      Append(fields, [family_name |-> font.val.family_name,
                                      properties |-> font.val.properties]))

select_descriptions_in_family(family) == describe_from(family, 1, <<>>)

RECURSIVE best_match_stops(_, _, _)
\* best_match_from, except that a family without a property match ends the
\* search with NotFound instead of moving on to the next preference
best_match_stops(family_names, properties, i) ==
    IF i > Len(family_names)
    THEN [result |-> Err("NotFound"), resolved |-> <<>>]
    ELSE LET family_name == family_names[i]
             self == <<GenericName(family_name)>>
             family_handle == select_family_by_generic_name(family_name)
             rest == best_match_stops(family_names, properties, i + 1)
         IN  IF family_handle.tag = "Ok"
             THEN LET candidates == select_descriptions_in_family(family_handle.val)
                  IN  IF candidates.tag # "Ok"
                      THEN [result |-> candidates, resolved |-> self]
                      ELSE LET index == find_best_match(candidates.val, properties)
                           IN  IF index.tag = "Ok"
                               THEN [result |-> Index(family_handle.val.fonts, index.val),
                                     resolved |-> self]
                               ELSE [result |-> index, resolved |-> self]
             ELSE [result |-> rest.result, resolved |-> self \o rest.resolved]

RECURSIVE best_match_from(_, _, _)
\* the loop of select_best_match from preference i on: the outcome and the
\* names resolved on the way
best_match_from(family_names, properties, i) ==
    IF i > Len(family_names)
    THEN [result |-> Err("NotFound"), resolved |-> <<>>]
    ELSE LET family_name == family_names[i]
             self == <<GenericName(family_name)>>
             family_handle == select_family_by_generic_name(family_name)
             rest == best_match_from(family_names, properties, i + 1)
             continue == [result |-> rest.result, resolved |-> self \o rest.resolved]
         IN  IF family_handle.tag = "Ok"
             THEN LET candidates == select_descriptions_in_family(family_handle.val)
                  IN  IF candidates.tag # "Ok"
                      THEN [result |-> candidates, resolved |-> self]   \* try!
                      ELSE LET index == find_best_match(candidates.val, properties)
                           IN  IF index.tag = "Ok"
                               THEN [result |-> Index(family_handle.val.fonts, index.val),
                                     resolved |-> self]
                               ELSE continue
             ELSE continue

\* select_best_match, except that the loop starts at the second preference
select_best_match_skips_first(family_names, properties) ==
    LET out == best_match_from(family_names, properties, 2)
    IN  [result |-> out.result,
         resolved |-> out.resolved]

select_best_match(family_names, properties) ==
    best_match_from(family_names, properties, 1)

\* the zip loop over one family: the handle at the position of the first font
\* whose PostScript name equals the query
RECURSIVE zip_find(_, _, _, _)
zip_find(handles, fonts, postscript_name, k) ==
    IF k > Len(handles) \/ k > Len(fonts)
    THEN Err("NotFound")
    ELSE IF fonts[k].postscript_name = postscript_name
         THEN Ok(handles[k])
         ELSE zip_find(handles, fonts, postscript_name, k + 1)

RECURSIVE postscript_from(_, _, _)
postscript_from(families, postscript_name, i) ==
    IF i > Len(families)
    THEN [result |-> Err("NotFound"), resolved |-> <<>>]
    ELSE LET family_name == families[i]
             self == <<family_name>>
             family_handle == select_family_by_name(family_name)
             family == Family_from_handle(family_handle.val)
             found == zip_find(family_handle.val.fonts, family.val.fonts,
                               postscript_name, 1)
             rest == postscript_from(families, postscript_name, i + 1)
             continue == [result |-> rest.result, resolved |-> self \o rest.resolved]
         IN  IF family_handle.tag = "Ok" /\ family.tag = "Ok" /\ found.tag = "Ok"
             THEN [result |-> found, resolved |-> self]
             ELSE continue

\* select_by_postscript_name, except that a failure of all_families is
\* swallowed like a failure of one family
select_by_postscript_name_swallows(all_families, postscript_name) ==
    IF all_families.tag = "Err"
    THEN [result |-> Err("NotFound"), resolved |-> <<>>]
    ELSE postscript_from(all_families.val, postscript_name, 1)

\* all_families is the adapter's answer: Ok(list of names) or Err(IoFailure)
select_by_postscript_name(all_families, postscript_name) ==
    IF all_families.tag = "Err"
    THEN [result |-> all_families, resolved |-> <<>>]     \* try!
    ELSE postscript_from(all_families.val, postscript_name, 1)

(***************************************************************************)
(* The state machine of the matching engine.                               *)
(***************************************************************************)
NoCall == [op |-> "none"]

\* Core Text answers every family query with Ok; another adapter answers a
\* family it cannot resolve with an error and any other with its fonts.
Init ==
    /\ source \in {"CoreText", "Other"}
    /\ installed \in [FamilyNames -> SeqsUpTo(Faces, MaxFonts)]
    /\ failure \in [FamilyNames -> {"none", "NotFound", "IoFailure"}]
    /\ source = "CoreText" => \A n \in FamilyNames : failure[n] = "none"
    /\ source = "Other" =>
          \A n \in FamilyNames : (failure[n] = "none") <=> (installed[n] # <<>>)
    /\ call = NoCall
    /\ result = Ok("none")
    /\ resolved = <<>>
    /\ pc = "idle"

\* the answers the matching policy can give for the catalog's families: an
\* index into the family's candidates or -1, and -1 for a family not asked for
Policies(family_names) ==
    {p \in [FamilyNames -> -1..(MaxFonts - 1)] :
        \A n \in FamilyNames :
            /\ p[n] < Len(installed[n])
            /\ (\A i \in 1..Len(family_names) : GenericName(family_names[i]) # n)
                   => p[n] = -1}

SelectBestMatch ==
    /\ pc = "idle"
    /\ \E family_names \in SeqsUpTo(FamilyNameValues, MaxPrefs) :
       \E properties \in Policies(family_names) :
          LET out == select_best_match(family_names, properties)
          IN  /\ call' = [op |-> "select_best_match",
                          family_names |-> family_names,
                          properties |-> properties]
              /\ result' = out.result
              /\ resolved' = out.resolved
    /\ pc' = "done"
    /\ UNCHANGED <<source, installed, failure>>

SelectDescriptionsInFamily ==
    /\ pc = "idle"
    /\ \E n \in FamilyNames :
          LET family == select_family_by_name(n)
          IN  /\ family.tag = "Ok"
              /\ call' = [op |-> "select_descriptions_in_family",
                          family |-> family.val]
              /\ result' = select_descriptions_in_family(family.val)
    /\ resolved' = <<>>
    /\ pc' = "done"
    /\ UNCHANGED <<source, installed, failure>>

\* The provided method is the one the adapters other than Core Text use.
SelectByPostscriptName ==
    /\ pc = "idle"
    /\ source = "Other"
    /\ \E all_families \in {Err("IoFailure")}
                            \cup {Ok(l) : l \in SeqsUpTo(FamilyNames, MaxListed)} :
       \E postscript_name \in PostscriptNames :
          LET out == select_by_postscript_name(all_families, postscript_name)
          IN  /\ call' = [op |-> "select_by_postscript_name",
                          all_families |-> all_families,
                          postscript_name |-> postscript_name]
              /\ result' = out.result
              /\ resolved' = out.resolved
    /\ pc' = "done"
    /\ UNCHANGED <<source, installed, failure>>

SelectFamilyByGenericName ==
    /\ pc = "idle"
    /\ \E family_name \in FamilyNameValues :
          /\ call' = [op |-> "select_family_by_generic_name",
                      family_name |-> family_name]
          /\ result' = select_family_by_generic_name(family_name)
          /\ resolved' = <<GenericName(family_name)>>
    /\ pc' = "done"
    /\ UNCHANGED <<source, installed, failure>>

Next ==
    \/ SelectBestMatch
    \/ SelectDescriptionsInFamily
    \/ SelectByPostscriptName
    \/ SelectFamilyByGenericName

Spec == Init /\ [][Next]_vars

(***************************************************************************)
(* f32 arithmetic, as exact rational arithmetic: a value is [n, d] in      *)
(* lowest terms with d > 0, and NaN is [0, 0].  Rounding is not modelled.  *)
(***************************************************************************)
Abs(x) == IF x < 0 THEN -x ELSE x

RECURSIVE GCD(_, _)
GCD(a, b) == IF b = 0 THEN a ELSE GCD(b, a % b)

Rat(n, d) ==
    LET g == GCD(Abs(n), Abs(d))
        s == IF d < 0 THEN -1 ELSE 1
    IN  [n |-> (s * n) \div g, d |-> (s * d) \div g]

NaN == [n |-> 0, d |-> 0]
FromInt(i) == [n |-> i, d |-> 1]

RatAdd(x, y) == Rat(x.n * y.d + y.n * x.d, x.d * y.d)
RatSub(x, y) == Rat(x.n * y.d - y.n * x.d, x.d * y.d)
RatMul(x, y) == Rat(x.n * y.n, x.d * y.d)
RatDiv(x, y) == Rat(x.n * y.d, x.d * y.n)
RatLt(x, y) == x.n * y.d < y.n * x.d
RatLe(x, y) == x.n * y.d <= y.n * x.d

\* f32::floor, f32::ceil (as integers) and f32::fract
Floor(x) == x.n \div x.d
Ceil(x) == -((-x.n) \div x.d)
Trunc(x) == IF x.n < 0 THEN Ceil(x) ELSE Floor(x)
Fract(x) == RatSub(x, FromInt(Trunc(x)))

\* f32::max(a, b)
RatMax(a, b) == IF RatLt(a, b) THEN b ELSE a

\* PartialOrd::partial_cmp on f32: None when either side is NaN
partial_cmp(a, b) ==
    IF a = NaN \/ b = NaN THEN "None"
    ELSE IF RatLt(a, b) THEN "Less"
    ELSE IF RatLt(b, a) THEN "Greater"
    ELSE "Equal"

\* utils::lerp
lerp(a, b, t) == RatAdd(a, RatMul(RatSub(b, a), t))

\* utils::clamp
clamp(x, min, max) == IF RatLt(x, min) THEN min ELSE IF RatLt(max, x) THEN max ELSE x

(***************************************************************************)
(* core_text.rs: the scale mapper.                                         *)
(***************************************************************************)
FONT_WEIGHT_MAPPING ==
    <<Rat(-7, 10), Rat(-5, 10), Rat(-23, 100), Rat(0, 1), Rat(2, 10),
      Rat(3, 10), Rat(4, 10), Rat(6, 10), Rat(8, 10)>>

\* Stretch::MAPPING: nine breakpoints; the tests of core_text.rs fix the ones
\* at positions 0, 4, 7 and 8.
Stretch_MAPPING ==
    <<Rat(1, 2), Rat(5, 8), Rat(3, 4), Rat(7, 8), Rat(1, 1),
      Rat(9, 8), Rat(5, 4), Rat(3, 2), Rat(2, 1)>>

\* piecewise_linear_lookup, except that the upper breakpoint is taken at
\* floor(index) + 1 instead of ceil(index)
piecewise_linear_lookup_next(index, mapping) ==
    LET lower_value == Index(mapping, Floor(index))
        upper_value == Index(mapping, Floor(index) + 1)
    IN  IF lower_value.tag = "Panic" \/ upper_value.tag = "Panic"
        THEN Panic
        ELSE Ok(lerp(lower_value.val, upper_value.val, Fract(index)))

piecewise_linear_lookup(index, mapping) ==
    LET lower_value == Index(mapping, Floor(index))
        upper_value == Index(mapping, Ceil(index))
    IN  IF lower_value.tag = "Panic" \/ upper_value.tag = "Panic"
        THEN Panic
        ELSE Ok(lerp(lower_value.val, upper_value.val, Fract(index)))

\* the comparator handed to binary_search_by
compare(value, query_value) ==
    LET c == partial_cmp(value, query_value)
    IN  IF c = "None" THEN "Less" ELSE c

RECURSIVE binary_search_loop(_, _, _, _)
\* slice::binary_search_by: halve the window [base, base + size)
binary_search_loop(mapping, query_value, base, size) ==
    IF size > 1
    THEN LET half == size \div 2
             mid == base + half
             cmp == compare(mapping[mid + 1], query_value)
         IN  binary_search_loop(mapping, query_value,
                                IF cmp = "Greater" THEN base ELSE mid, size - half)
    ELSE LET cmp == compare(mapping[base + 1], query_value)
         IN  IF cmp = "Equal"
             THEN Ok(base)
             ELSE Err(base + (IF cmp = "Less" THEN 1 ELSE 0))

binary_search_by(mapping, query_value) ==
    IF Len(mapping) = 0
    THEN Err(0)
    ELSE binary_search_loop(mapping, query_value, 0, Len(mapping))

\* piecewise_linear_find_index, except that the interpolation parameter is
\* added to the upper index
piecewise_linear_find_index_upper(query_value, mapping) ==
    LET found == binary_search_by(mapping, query_value)
        upper_index == found.val
        lower_index == upper_index - 1
        upper_value == Index(mapping, upper_index)
        lower_value == Index(mapping, lower_index)
        t == RatDiv(RatSub(query_value, lower_value.val),
                    RatSub(upper_value.val, lower_value.val))
    IN  IF found.tag = "Ok" THEN Ok(FromInt(found.val))
        ELSE IF upper_index = 0 THEN Ok(FromInt(upper_index))
        ELSE IF upper_value.tag = "Panic" \/ lower_value.tag = "Panic" THEN Panic
        ELSE Ok(RatAdd(FromInt(upper_index), t))

piecewise_linear_find_index(query_value, mapping) ==
    LET found == binary_search_by(mapping, query_value)
        upper_index == found.val
        lower_index == upper_index - 1
        upper_value == Index(mapping, upper_index)
        lower_value == Index(mapping, lower_index)
        t == RatDiv(RatSub(query_value, lower_value.val),
                    RatSub(upper_value.val, lower_value.val))
    IN  IF found.tag = "Ok" THEN Ok(FromInt(found.val))
        ELSE IF upper_index = 0 THEN Ok(FromInt(upper_index))
        ELSE IF upper_value.tag = "Panic" \/ lower_value.tag = "Panic" THEN Panic
        ELSE Ok(RatAdd(FromInt(lower_index), t))

css_to_core_text_font_weight(css_weight) ==
    piecewise_linear_lookup(
        RatSub(RatDiv(RatMax(FromInt(100), css_weight), FromInt(100)), FromInt(1)),
        FONT_WEIGHT_MAPPING)

css_stretchiness_to_core_text_width(css_stretchiness) ==
    LET clamped == clamp(css_stretchiness, Rat(1, 2), FromInt(2))
        index == piecewise_linear_find_index(clamped, Stretch_MAPPING)
    IN  IF index.tag = "Panic"
        THEN Panic
        ELSE Ok(RatSub(RatMul(Rat(1, 4), index.val), FromInt(1)))

(***************************************************************************)
(* The state machine of the scale mapper: one call of one of its           *)
(* functions on a table and an argument drawn from bounded sets.           *)
(***************************************************************************)
MaxTableLen == 3
MaxTableValue == 3

\* the strictly ascending tables over 0..MaxTableValue, and the two tables of
\* the program
AscendingTables ==
    {[k \in 1..Len(t) |-> FromInt(t[k])] :
        t \in {u \in SeqsUpTo(0..MaxTableValue, MaxTableLen) :
                  /\ Len(u) >= 1
                  /\ \A k \in 1..(Len(u) - 1) : u[k] < u[k + 1]}}

Tables == AscendingTables \cup {FONT_WEIGHT_MAPPING, Stretch_MAPPING}

\* fractional indices 0, 1/4, 1/2, ... up to the table's length
Indices(mapping) == {Rat(k, 4) : k \in 0..(4 * Len(mapping))}

\* query values -1, -39/40, ... up to MaxTableValue + 1, and NaN
Queries == {Rat(k, 40) : k \in (-40)..(40 * (MaxTableValue + 1))} \cup {NaN}

\* Weight(w) for the whole numbers of the declared domain
Weights == {FromInt(w) : w \in 1..1000}

\* Stretch(s) for s = 0, 0.05, ... 3.0
Stretches == {Rat(k, 20) : k \in 0..60}

ScaleInit ==
    /\ source = "CoreText"
    /\ installed = [n \in FamilyNames |-> <<>>]
    /\ failure = [n \in FamilyNames |-> "none"]
    /\ call = NoCall
    /\ result = Ok("none")
    /\ resolved = <<>>
    /\ pc = "idle"

PiecewiseLinearLookup ==
    /\ pc = "idle"
    /\ \E mapping \in Tables :
       \E index \in Indices(mapping) :
          /\ call' = [op |-> "piecewise_linear_lookup",
                      index |-> index, mapping |-> mapping]
          /\ result' = piecewise_linear_lookup(index, mapping)
    /\ pc' = "done"
    /\ UNCHANGED <<source, installed, failure, resolved>>

PiecewiseLinearFindIndex ==
    /\ pc = "idle"
    /\ \E mapping \in Tables :
       \E query_value \in Queries :
          /\ call' = [op |-> "piecewise_linear_find_index",
                      query_value |-> query_value, mapping |-> mapping]
          /\ result' = piecewise_linear_find_index(query_value, mapping)
    /\ pc' = "done"
    /\ UNCHANGED <<source, installed, failure, resolved>>

CssToCoreTextFontWeight ==
    /\ pc = "idle"
    /\ \E css_weight \in Weights :
          /\ call' = [op |-> "css_to_core_text_font_weight",
                      css_weight |-> css_weight]
          /\ result' = css_to_core_text_font_weight(css_weight)
    /\ pc' = "done"
    /\ UNCHANGED <<source, installed, failure, resolved>>

CssStretchinessToCoreTextWidth ==
    /\ pc = "idle"
    /\ \E css_stretchiness \in Stretches :
          /\ call' = [op |-> "css_stretchiness_to_core_text_width",
                      css_stretchiness |-> css_stretchiness]
          /\ result' = css_stretchiness_to_core_text_width(css_stretchiness)
    /\ pc' = "done"
    /\ UNCHANGED <<source, installed, failure, resolved>>

ScaleNext ==
    \/ PiecewiseLinearLookup
    \/ PiecewiseLinearFindIndex
    \/ CssToCoreTextFontWeight
    \/ CssStretchinessToCoreTextWidth

ScaleSpec == ScaleInit /\ [][ScaleNext]_vars

(***************************************************************************)
(* Properties of the matching engine, checked under Spec.                  *)
(***************************************************************************)
Done(op) == pc = "done" /\ call.op = op

\* What preference i of the select_best_match call yields on its own: the
\* family it resolves to, that family's descriptions, the policy's choice.
FamilyOf(i) == select_family_by_generic_name(call.family_names[i])
CandidatesOf(i) == select_descriptions_in_family(FamilyOf(i).val)
ChoiceOf(i) == find_best_match(CandidatesOf(i).val, call.properties)

Wins(i) ==
    /\ FamilyOf(i).tag = "Ok"
    /\ CandidatesOf(i).tag = "Ok"
    /\ ChoiceOf(i).tag = "Ok"

Skipped(i) ==
    \/ FamilyOf(i) = Err("NotFound")
    \/ /\ FamilyOf(i).tag = "Ok"
       /\ CandidatesOf(i).tag = "Ok"
       /\ ChoiceOf(i).tag = "Err"

WinnerOf(i) == FamilyOf(i).val.fonts[ChoiceOf(i).val + 1]
NamesUpTo(i) == [k \in 1..i |-> GenericName(call.family_names[k])]

\* C1: select_best_match returns the handle family.fonts[index] of the first
\* preference that resolves to a family whose descriptions the policy matches;
\* the index lies within that family's fonts; no preference after the winning
\* one is resolved; and when every preference before a matching one fails
\* with NotFound or has no property match, the matching one's candidate is
\* the result.
C1_FirstMatchWins ==
    Done("select_best_match") =>
        LET winners == {i \in 1..Len(call.family_names) : Wins(i)}
        IN  /\ result.tag = "Ok" =>
                  \E i \in winners :
                      /\ \A j \in winners : i <= j
                      /\ ChoiceOf(i).val \in 0..(Len(FamilyOf(i).val.fonts) - 1)
                      /\ result.val = WinnerOf(i)
                      /\ resolved = NamesUpTo(i)
            /\ \A i \in winners :
                  (\A j \in 1..(i - 1) : Skipped(j)) =>
                      /\ result = Ok(WinnerOf(i))
                      /\ resolved = NamesUpTo(i)

\* [A, B]: A resolves without a property match, B resolves with one, and the
\* result is B's candidate
C1_Witness ==
    /\ Done("select_best_match")
    /\ Len(call.family_names) = 2
    /\ GenericName(call.family_names[1]) # GenericName(call.family_names[2])
    /\ FamilyOf(1).tag = "Ok" /\ Skipped(1)
    /\ Wins(2)
    /\ ChoiceOf(2).val = 1
    /\ result = Ok(WinnerOf(2))

\* C2: select_best_match returns NotFound exactly when the preferences are
\* exhausted without a result: when every preference fails to resolve with
\* NotFound or resolves to a family without a property match (the empty list
\* included) the outcome is Err(NotFound), and an Err(NotFound) outcome means
\* that every preference was consulted and none of them won.
C2_NotFoundWhenExhausted ==
    Done("select_best_match") =>
        /\ (\A i \in 1..Len(call.family_names) : Skipped(i)) =>
               result = Err("NotFound")
        /\ result = Err("NotFound") =>
               /\ \A i \in 1..Len(call.family_names) : ~Wins(i)
               /\ resolved = NamesUpTo(Len(call.family_names))

\* one preference fails to resolve with NotFound, the other resolves to a
\* family without a property match
C2_Witness ==
    /\ Done("select_best_match")
    /\ Len(call.family_names) = 2
    /\ FamilyOf(1) = Err("NotFound")
    /\ FamilyOf(2).tag = "Ok" /\ Skipped(2)
    /\ FamilyOf(2).val.fonts # <<>>
    /\ result = Err("NotFound")

\* C3: an IoFailure answered by the catalog while resolving a preference
\* aborts select_best_match: it is the result, and no later preference is
\* consulted.
C3_IoFailureAborts ==
    Done("select_best_match") =>
        \A i \in 1..Len(call.family_names) :
            (/\ FamilyOf(i) = Err("IoFailure")
             /\ \A j \in 1..(i - 1) : Skipped(j)) =>
                 /\ result = Err("IoFailure")
                 /\ resolved = NamesUpTo(i)

\* C4: select_descriptions_in_family returns one description per handle, in
\* the handles' order, and when a handle cannot be loaded it returns the
\* error IoFailure; the same when select_best_match calls it.
DescriptionOf(handle) ==
    [family_name |-> handle.path[1],
     properties |-> installed[handle.path[1]][handle.path[2]]]

Loadable(handle) == installed[handle.path[1]][handle.path[2]] # "bad"

C4_DescriptionsOrFailure ==
    /\ Done("select_descriptions_in_family") =>
           LET fonts == call.family.fonts
           IN  IF \A k \in 1..Len(fonts) : Loadable(fonts[k])
               THEN result = Ok([k \in 1..Len(fonts) |-> DescriptionOf(fonts[k])])
               ELSE result = Err("IoFailure")
    /\ Done("select_best_match") => result.tag # "Panic"

\* C5: the provided select_by_postscript_name visits the families in the
\* order all_families lists them and each family's fonts in order, and
\* returns the handle at the position of the first font whose PostScript name
\* is the query; a family that fails to resolve or to load is skipped; without
\* a match the result is NotFound; a failure of all_families is the result.
FamilyLoads(n) ==
    /\ select_family_by_name(n).tag = "Ok"
    /\ \A k \in 1..Len(installed[n]) : installed[n][k] # "bad"

Hits ==
    {h \in (1..Len(call.all_families.val)) \X (1..MaxFonts) :
        LET n == call.all_families.val[h[1]]
        IN  /\ FamilyLoads(n)
            /\ h[2] <= Len(installed[n])
            /\ installed[n][h[2]] = call.postscript_name}

Before(g, h) == g[1] < h[1] \/ (g[1] = h[1] /\ g[2] <= h[2])

C5_FirstPostscriptMatch ==
    Done("select_by_postscript_name") =>
        IF call.all_families.tag = "Err"
        THEN result = call.all_families /\ resolved = <<>>
        ELSE IF Hits = {}
        THEN result = Err("NotFound") /\ resolved = call.all_families.val
        ELSE \E h \in Hits :
                /\ \A g \in Hits : Before(h, g)
                /\ result = Ok([path |-> <<call.all_families.val[h[1]], h[2]>>,
                                font_index |-> 0])
                /\ resolved = SubSeq(call.all_families.val, 1, h[1])

\* the first listed family is skipped and the match is the second font of the
\* second family
C5_Witness ==
    /\ Done("select_by_postscript_name")
    /\ call.all_families.tag = "Ok"
    /\ Len(call.all_families.val) = 2
    /\ ~FamilyLoads(call.all_families.val[1])
    /\ Hits = {<<2, 2>>}
    /\ result.tag = "Ok"
    /\ result.val.path = <<call.all_families.val[2], 2>>

\* C6: a family resolution that succeeds holds at least one font handle.
C6_FamilyNeverEmpty ==
    Done("select_family_by_generic_name") =>
        (result.tag = "Ok" => result.val.fonts # <<>>)

(***************************************************************************)
(* Properties of the scale mapper, checked under ScaleSpec.                *)
(***************************************************************************)
Last(mapping) == mapping[Len(mapping)]

\* C7: piecewise_linear_lookup(x, T) is T[floor x] + fract(x) * (T[ceil x] -
\* T[floor x]) for x in [0, len(T) - 1], and T[i] at an integer index i; the
\* weight table gives -0.7 at 100, 0.0 at 400, 0.4 at 700, 0.8 at 900, the
\* table entry at every multiple of 100, and 0.1 at 450.
C7_ForwardLookup ==
    /\ Done("piecewise_linear_lookup") =>
           LET x == call.index
               T == call.mapping
           IN  RatLe(x, FromInt(Len(T) - 1)) =>
                   /\ result =
                          Ok(RatAdd(T[Floor(x) + 1],
                                    RatMul(RatSub(x, FromInt(Floor(x))),
                                           RatSub(T[Ceil(x) + 1], T[Floor(x) + 1]))))
                   /\ x.d = 1 => result = Ok(T[x.n + 1])
    /\ Done("css_to_core_text_font_weight") =>
           LET w == call.css_weight.n
           IN  /\ (w \in 100..900 /\ w % 100 = 0) =>
                      result = Ok(FONT_WEIGHT_MAPPING[w \div 100])
               /\ w = 100 => result = Ok(Rat(-7, 10))
               /\ w = 400 => result = Ok(Rat(0, 1))
               /\ w = 700 => result = Ok(Rat(4, 10))
               /\ w = 900 => result = Ok(Rat(8, 10))
               /\ w = 450 => result = Ok(Rat(1, 10))

C7_Witness ==
    /\ Done("css_to_core_text_font_weight")
    /\ call.css_weight = FromInt(450)
    /\ result = Ok(Rat(1, 10))

\* C8: for a strictly ascending table T and a query q <= T[last],
\* piecewise_linear_find_index returns i when q = T[i], 0 when q < T[0], and
\* otherwise lower + (q - T[lower]) / (T[lower + 1] - T[lower]) for the lower
\* with T[lower] < q < T[lower + 1]; css_stretchiness_to_core_text_width maps
\* 1.0 to 0.0, 0.5 to -1.0, 2.0 to 1.0, 1.7 to 0.85, and every stretch into
\* [-1.0, 1.0].
C8_InverseLookup ==
    /\ Done("piecewise_linear_find_index") =>
           LET q == call.query_value
               T == call.mapping
           IN  (q # NaN /\ RatLe(q, Last(T))) =>
                   /\ \A i \in 1..Len(T) : q = T[i] => result = Ok(FromInt(i - 1))
                   /\ RatLt(q, T[1]) => result = Ok(FromInt(0))
                   /\ \A l \in 1..(Len(T) - 1) :
                          (RatLt(T[l], q) /\ RatLt(q, T[l + 1])) =>
                              result = Ok(RatAdd(FromInt(l - 1),
                                                 RatDiv(RatSub(q, T[l]),
                                                        RatSub(T[l + 1], T[l]))))
    /\ Done("css_stretchiness_to_core_text_width") =>
           LET s == call.css_stretchiness
           IN  /\ result.tag = "Ok"
               /\ RatLe(FromInt(-1), result.val) /\ RatLe(result.val, FromInt(1))
               /\ s = FromInt(1) => result = Ok(FromInt(0))
               /\ s = Rat(1, 2) => result = Ok(FromInt(-1))
               /\ s = FromInt(2) => result = Ok(FromInt(1))
               /\ s = Rat(17, 10) => result = Ok(Rat(85, 100))

C8_Witness ==
    /\ Done("css_stretchiness_to_core_text_width")
    /\ call.css_stretchiness = Rat(17, 10)
    /\ result = Ok(Rat(17, 20))

\* C9: for every strictly ascending table and every query value, a number
\* above the table's maximum included, piecewise_linear_find_index returns a
\* fractional index in [0, len(T) - 1] and reads no position outside the
\* table.  Stated for the queries that are numbers; NaN fares no better.
C9_InverseNeverOutOfBounds ==
    (Done("piecewise_linear_find_index") /\ call.query_value # NaN) =>
        /\ result.tag = "Ok"
        /\ RatLe(FromInt(0), result.val)
        /\ RatLe(result.val, FromInt(Len(call.mapping) - 1))

\* C10: for every CSS weight in 1..1000 css_to_core_text_font_weight looks the
\* weight table up at an index within [0, 8]: a weight below 100 yields -0.7,
\* a weight above 900 yields 0.8, the result lies in [-0.7, 0.8] and no table
\* access is out of bounds.
C10_WeightClamped ==
    Done("css_to_core_text_font_weight") =>
        /\ result.tag = "Ok"
        /\ RatLe(Rat(-7, 10), result.val) /\ RatLe(result.val, Rat(8, 10))
        /\ call.css_weight.n < 100 => result = Ok(Rat(-7, 10))
        /\ call.css_weight.n > 900 => result = Ok(Rat(8, 10))

====
